---- MODULE Spec2Model ----
(***************************************************************************)
(* A model of lib/galaxy/managers/sharable.py: SharableModelManager.       *)
(*                                                                         *)
(* The manager works on model objects held in a SQLAlchemy session.  The   *)
(* model keeps, for every item, the attribute values of the object in the  *)
(* session (mem) and the row the database holds (db); session().flush()    *)
(* writes the first onto the second.  Share associations are rows of their *)
(* own: flushed ones (assocs), ones added to the session and not flushed   *)
(* (pending) and ones marked for deletion and not flushed (deleted).       *)
(*                                                                         *)
(* Whether a query sees what the session has not flushed is a setting of   *)
(* the session, made outside this file: autoflush is either, fixed at the  *)
(* start.                                                                  *)
(*                                                                         *)
(* Strings are sequences of one-character strings, so that _slugify,       *)
(* is_valid_slug and the '%s-%i' formatting are computed, not assumed.     *)
(*                                                                         *)
(* Six specifications share the definitions:                               *)
(*   Spec       the calls that write slug, importable and published, each  *)
(*              call one step of one session;                              *)
(*   SpecShare  the calls that write share associations, likewise;         *)
(*   SpecSteps  make_importable, make_non_importable, publish and          *)
(*              unpublish line by line, run by two concurrent requests;    *)
(*   SpecProbe  the same lines run by one request alone, from the rows     *)
(*              earlier calls can have flushed (get_unique_slug);          *)
(*   SpecAccess is_owner and is_accessible, applied to the items and share *)
(*              associations earlier calls can have left in the session;   *)
(*   SpecDeserialize  deserialize_published and deserialize_importable.    *)
(***************************************************************************)
EXTENDS Integers, Sequences, FiniteSets, TLC

VARIABLES
    owner,      \* item -> item.user, the user the item belongs to (never written)
    autoflush,  \* whether the session flushes before each query (session configuration)
    title,      \* item -> its title text (never written by this manager)
    mem,        \* item -> [slug, importable, published] of the object in the session
    db,         \* item -> [slug, importable, published] of the flushed row
    assocs,     \* flushed share association rows, in insertion order
    pending,    \* share associations added to the session and not yet flushed
    deleted,    \* ids of share associations deleted in the session and not yet flushed
    nextId,     \* the id the next share association gets
    last,       \* the last manager call: its arguments and its outcome
    pc,         \* request -> the line of the manager it is at (step-wise specification)
    req,        \* request -> the call it runs (step-wise specification)
    ndeferred,  \* calls made since the session last held nothing unflushed
    probe       \* request -> [slug_base, new_slug, count] of its get_unique_slug loop

vars == <<owner, autoflush, title, mem, db, assocs, pending, deleted, nextId, last,
          ndeferred, pc, req, probe>>

----
(* Bounds of the model *)

\* the longest slug an item may get (make_importable can lengthen a slug without end)
MaxSlugLen == 3
\* the number of share associations ever created
MaxAssocs == 2
\* the longest list of users handed to share_with / unshare_with
MaxListLen == 2
\* the number of calls in a row that leave something unflushed in the session
MaxDeferred == 1

----
(* Identities and items *)

\* user is None: the anonymous identity, and the value get_share_assocs treats as "no user given"
Anonymous == "None"
Users == {"u1", "u2", "admin"}
Identities == Users \cup {Anonymous}

Items == {1, 2}
\* the users that own items
Owners == {"u1", "u2"}

\* item.slug is None
NoSlug == <<"None">>

Titles == { <<"A", " ", "!">>, <<"!", " ">> }

\* slugs handed to set_slug
Candidates == { <<"a">>, <<"a", "\n">>, <<>>, <<"A">> }

----
(* Text: Python's str.lower, re.sub, re.match and % formatting on the characters used *)

LowerAlpha == <<"a","b","c","d","e","f","g","h","i","j","k","l","m",
                "n","o","p","q","r","s","t","u","v","w","x","y","z">>
UpperAlpha == <<"A","B","C","D","E","F","G","H","I","J","K","L","M",
                "N","O","P","Q","R","S","T","U","V","W","X","Y","Z">>
DigitChars == <<"0","1","2","3","4","5","6","7","8","9">>

Range(f) == { f[k] : k \in DOMAIN f }

\* what \s matches
Whitespace == {" ", "\t", "\n", "\r", "\f"}
\* what [a-zA-Z0-9\-] matches
AlnumHyphen == Range(LowerAlpha) \cup Range(UpperAlpha) \cup Range(DigitChars) \cup {"-"}
\* what [a-z0-9\-] matches
SlugChars == Range(LowerAlpha) \cup Range(DigitChars) \cup {"-"}

\* str.lower()
lower(s) ==
    [k \in 1..Len(s) |->
        IF s[k] \in Range(UpperAlpha)
        THEN LowerAlpha[CHOOSE n \in 1..26 : UpperAlpha[n] = s[k]]
        ELSE s[k]]

\* re.sub("\s+", "-", s): every maximal run of whitespace becomes one hyphen
RECURSIVE SubWhitespace(_)
SubWhitespace(s) ==
    IF s = <<>> THEN <<>>
    ELSE IF Head(s) \in Whitespace
         THEN IF Len(s) > 1 /\ s[2] \in Whitespace
              THEN SubWhitespace(Tail(s))
              ELSE <<"-">> \o SubWhitespace(Tail(s))
         ELSE <<Head(s)>> \o SubWhitespace(Tail(s))

\* re.sub("[^a-zA-Z0-9\-]", "", s)
RemoveNonAlnum(s) == SelectSeq(s, LAMBDA c : c \in AlnumHyphen)

\* '%i' % n for n >= 0
RECURSIVE IntToStr(_)
IntToStr(n) ==
    IF n < 10 THEN <<DigitChars[n + 1]>>
    ELSE IntToStr(n \div 10) \o <<DigitChars[(n % 10) + 1]>>

_slugify(start_with) ==
    LET slug_base == RemoveNonAlnum(SubWhitespace(start_with))
    IN  IF slug_base # <<>> /\ slug_base[Len(slug_base)] = "-"
        THEN SubSeq(slug_base, 1, Len(slug_base) - 1)
        ELSE slug_base

\* re.compile("^[a-z0-9\-]+$").match(slug): $ matches at the end of the string and
\* also just before a newline that ends the string
is_valid_slug(slug) ==
    LET body == IF slug # <<>> /\ slug[Len(slug)] = "\n"
                THEN SubSeq(slug, 1, Len(slug) - 1)
                ELSE slug
        AllSlugChars(s) == s # <<>> /\ \A k \in 1..Len(s) : s[k] \in SlugChars
    IN  AllSlugChars(slug) \/ AllSlugChars(body)

\* the item has a title (pages, visualizations) in this model; name is the fallback
_default_slug_base(ttl, i) == lower(ttl[i])

\* is_valid_slug as the specification words it: the whole string is [a-z0-9-]+
FullMatchSlug(s) == s # <<>> /\ \A k \in 1..Len(s) : s[k] \in SlugChars

----
(* The session and the database.  A session state S is a record of the item       *)
(* attributes, the flushed rows, the share associations and the outcome of the    *)
(* call in progress: flushed (session().flush() was called), exc (the exception   *)
(* raised, "none" if none) and ret (the ids of the share associations returned).  *)

Cur ==
    [mem |-> mem, db |-> db, assocs |-> assocs, pending |-> pending,
     deleted |-> deleted, nextId |-> nextId,
     flushed |-> FALSE, exc |-> "none", ret |-> <<>>]

\* what reaches the database when the session is flushed
FlushedState(S) ==
    [S EXCEPT !.db = S.mem,
              !.assocs = SelectSeq(S.assocs, LAMBDA a : a.id \notin S.deleted) \o S.pending,
              !.pending = <<>>,
              !.deleted = {}]

\* self.session().flush()
session_flush(S) == [FlushedState(S) EXCEPT !.flushed = TRUE]

\* self.session().query(...): an autoflushing session flushes before it queries
session_query(S) == IF autoflush THEN FlushedState(S) ELSE S

\* base.ModelManager._session_setattr: setattr, session.add, flush if asked
_session_setattr(S, i, attr, val, flush) ==
    LET S1 == [S EXCEPT !.mem[i][attr] = val]
    IN  IF flush THEN session_flush(S1) ELSE S1

\* users.UserManager.is_admin / is_anonymous
is_admin(user) == user = "admin"
is_anonymous(user) == user = Anonymous

is_owner(i, user) ==
    IF is_admin(user) THEN TRUE ELSE owner[i] = user

\* item.users_shared_with_dot_users: the users of the item's share associations, as the
\* session holds them
users_shared_with_dot_users(S, i) ==
    { a.user : a \in { b \in Range(S.assocs) \cup Range(S.pending) :
                          b.item = i /\ b.id \notin S.deleted } }

\* is_accessible with the anonymous test left out
is_accessible_no_anonymous_test(S, i, user) ==
    IF S.mem[i].importable THEN TRUE
    ELSE IF is_owner(i, user) THEN TRUE
    ELSE IF user \in users_shared_with_dot_users(S, i) THEN TRUE
    ELSE FALSE

is_accessible(S, i, user) ==
    IF S.mem[i].importable THEN TRUE
    ELSE IF is_owner(i, user) THEN TRUE
    ELSE IF is_anonymous(user) THEN FALSE
    ELSE IF user \in users_shared_with_dot_users(S, i) THEN TRUE
    ELSE FALSE

----
(* Slugs *)

\* query(model_class.slug).filter_by(user=user, slug=slug).count() != 0
_slug_exists(rows, user, slug) ==
    Cardinality({ j \in Items : owner[j] = user /\ rows[j].slug = slug }) # 0

\* the count of get_unique_slug without its importable=True filter
ImportableSlugCount_any_item(rows, user, new_slug) ==
    Cardinality({ j \in Items : owner[j] = user /\ rows[j].slug = new_slug })

\* query(item.__class__).filter_by(user=item.user, slug=new_slug, importable=True).count()
ImportableSlugCount(rows, user, new_slug) ==
    Cardinality({ j \in Items :
                    owner[j] = user /\ rows[j].slug = new_slug /\ rows[j].importable })

\* the while loop of get_unique_slug
RECURSIVE ProbeLoop(_, _, _, _, _)
ProbeLoop(rows, user, slug_base, new_slug, count) ==
    IF ImportableSlugCount(rows, user, new_slug) # 0
    THEN ProbeLoop(rows, user, slug_base,
                   slug_base \o <<"-">> \o IntToStr(count), count + 1)
    ELSE new_slug

\* the slug base get_unique_slug starts from
SlugBase(cur_slug, i) ==
    IF cur_slug = NoSlug \/ cur_slug = <<>>
    THEN _slugify(_default_slug_base(title, i))
    ELSE cur_slug

\* returns the session after the queries and the slug found
get_unique_slug(S, i) ==
    LET slug_base == SlugBase(S.mem[i].slug, i)
        S1 == session_query(S)
    IN  [S |-> S1, slug |-> ProbeLoop(S1.db, owner[i], slug_base, slug_base, 1)]

create_unique_slug(S, i, flush) ==
    LET r  == get_unique_slug(S, i)
        S1 == [r.S EXCEPT !.mem[i].slug = r.slug]
    IN  IF flush THEN session_flush(S1) ELSE S1

set_slug(S, i, new_slug, user, flush) ==
    IF ~ is_valid_slug(new_slug)
    THEN [S EXCEPT !.exc = "RequestParameterInvalidException"]
    ELSE LET S1 == session_query(S)
         IN  IF _slug_exists(S1.db, user, new_slug)
             THEN [S1 EXCEPT !.exc = "Conflict"]
             ELSE LET S2 == [S1 EXCEPT !.mem[i].slug = new_slug]
                  IN  IF flush THEN session_flush(S2) ELSE S2

----
(* importable / published *)

make_importable(S, i, flush) ==
    _session_setattr(create_unique_slug(S, i, FALSE), i, "importable", TRUE, flush)

unpublish(S, i, flush) ==
    _session_setattr(S, i, "published", FALSE, flush)

\* make_non_importable without its "item must be unpublished" step
make_non_importable_no_unpublish(S, i, flush) ==
    _session_setattr(S, i, "importable", FALSE, flush)

make_non_importable(S, i, flush) ==
    LET S1 == IF S.mem[i].published THEN unpublish(S, i, FALSE) ELSE S
    IN  _session_setattr(S1, i, "importable", FALSE, flush)

\* publish without its "if not item.importable" test
publish_always_make_importable(S, i, flush) ==
    _session_setattr(make_importable(S, i, FALSE), i, "published", TRUE, flush)

publish(S, i, flush) ==
    LET S1 == IF ~ S.mem[i].importable THEN make_importable(S, i, FALSE) ELSE S
    IN  _session_setattr(S1, i, "published", TRUE, flush)

----
(* Sharing *)

\* query_associated(user_share_model, item), filtered by user unless user is None
get_share_assocs(S, i, user) ==
    LET S1 == session_query(S)
    IN  [S |-> S1,
         rows |-> SelectSeq(S1.assocs,
                    LAMBDA a : a.item = i /\ (user = Anonymous \/ a.user = user))]

_create_user_share_assoc(S, i, user, flush) ==
    LET user_share_assoc == [id |-> S.nextId, item |-> i, user |-> user]
        S1 == [S EXCEPT !.pending = Append(S.pending, user_share_assoc),
                        !.nextId = S.nextId + 1]
        S2 == IF S1.mem[i].slug = NoSlug \/ S1.mem[i].slug = <<>>
              THEN create_unique_slug(S1, i, TRUE)
              ELSE S1
        S3 == IF flush THEN session_flush(S2) ELSE S2
    IN  [S3 EXCEPT !.ret = Append(S3.ret, user_share_assoc.id)]

\* share_with for one user
share_with_one(S, i, user, flush) ==
    LET existing == get_share_assocs(S, i, user)
    IN  IF existing.rows # <<>>
        THEN [existing.S EXCEPT !.ret = Append(existing.S.ret, existing.rows[1].id)]
        ELSE _create_user_share_assoc(existing.S, i, user, flush)

\* unshare_with for one user: [0] of an empty list raises IndexError
unshare_with_one(S, i, user, flush) ==
    LET found == get_share_assocs(S, i, user)
    IN  IF found.rows = <<>>
        THEN [found.S EXCEPT !.exc = "IndexError"]
        ELSE LET user_share_assoc == found.rows[1]
                 S1 == [found.S EXCEPT !.deleted = found.S.deleted \cup {user_share_assoc.id}]
                 S2 == IF flush THEN session_flush(S1) ELSE S1
             IN  [S2 EXCEPT !.ret = Append(S2.ret, user_share_assoc.id)]

\* map(lambda user: self.share_with(item, user, flush=False), user)
RECURSIVE share_with_list(_, _, _)
share_with_list(S, i, users) ==
    IF users = <<>> \/ S.exc # "none" THEN S
    ELSE share_with_list(share_with_one(S, i, Head(users), FALSE), i, Tail(users))

\* map(lambda user: self.unshare_with(item, user, flush=False), user)
RECURSIVE unshare_with_list(_, _, _)
unshare_with_list(S, i, users) ==
    IF users = <<>> \/ S.exc # "none" THEN S
    ELSE unshare_with_list(unshare_with_one(S, i, Head(users), FALSE), i, Tail(users))

\* user is a sequence when isinstance(user, list), one identity otherwise
share_with(S, i, users, isList, flush) ==
    IF isList THEN share_with_list(S, i, users)
    ELSE share_with_one(S, i, users[1], flush)

unshare_with(S, i, users, isList, flush) ==
    IF isList THEN unshare_with_list(S, i, users)
    ELSE unshare_with_one(S, i, users[1], flush)

----
(* SharableModelDeserializer: val is what validate.bool let through, a boolean; the *)
(* result is the session after the call and the value returned                      *)

deserialize_published(S, i, val) ==
    IF S.mem[i].published = val
    THEN [S |-> S, val |-> val]
    ELSE LET S1 == IF val THEN publish(S, i, FALSE) ELSE unpublish(S, i, FALSE)
         IN  [S |-> S1, val |-> S1.mem[i].published]

deserialize_importable(S, i, val) ==
    IF S.mem[i].importable = val
    THEN [S |-> S, val |-> val]
    ELSE LET S1 == IF val THEN make_importable(S, i, FALSE)
                   ELSE make_non_importable(S, i, FALSE)
         IN  [S |-> S1, val |-> S1.mem[i].published]

----
(* The manager's calls, one action each *)

\* the last call: the method, the item, the exception raised ("none" if none), whether
\* session().flush() was called, the ids of the share associations returned, and the
\* boolean returned (FALSE when the call returns none)
NoCall ==
    [op |-> "init", item |-> 0, exc |-> "none", ret |-> <<>>, flushed |-> FALSE,
     val |-> FALSE]

Call(op, i, R) ==
    [op |-> op, item |-> i, exc |-> R.exc, ret |-> R.ret, flushed |-> R.flushed,
     val |-> FALSE]

\* a call that returns a boolean
Answer(op, i, R, val) == [Call(op, i, R) EXCEPT !.val = val]

\* nothing in the session waits for a flush
Clean(R) == R.mem = R.db /\ R.pending = <<>> /\ R.deleted = {}

\* the model's bounds on what a call may produce
WithinBounds(R) ==
    /\ \A i \in Items : Len(R.mem[i].slug) <= MaxSlugLen
    /\ R.nextId <= MaxAssocs + 1
    /\ Clean(R) \/ ndeferred < MaxDeferred

StepUnchanged == UNCHANGED <<pc, req, probe>>

\* the session and the database become what the call left, and the call is recorded
Returns(R, call) ==
    /\ WithinBounds(R)
    /\ mem' = R.mem
    /\ db' = R.db
    /\ assocs' = R.assocs
    /\ pending' = R.pending
    /\ deleted' = R.deleted
    /\ nextId' = R.nextId
    /\ last' = call
    /\ ndeferred' = IF Clean(R) THEN 0 ELSE ndeferred + 1
    /\ UNCHANGED <<owner, autoflush, title>>
    /\ StepUnchanged

\* the lists of at most MaxListLen identities
UserLists(ids) == UNION { [1..n -> ids] : n \in 0..MaxListLen }

\* the identities an item is shared with: anyone but its owner
Grantees(i) == Identities \ {owner[i]}

MakeImportableCall(i, flush) ==
    LET R == make_importable(Cur, i, flush)
    IN  Returns(R, Call("make_importable", i, R))

MakeNonImportableCall(i, flush) ==
    LET R == make_non_importable(Cur, i, flush)
    IN  Returns(R, Call("make_non_importable", i, R))

PublishCall(i, flush) ==
    LET R == publish(Cur, i, flush)
    IN  Returns(R, Call("publish", i, R))

UnpublishCall(i, flush) ==
    LET R == unpublish(Cur, i, flush)
    IN  Returns(R, Call("unpublish", i, R))

CreateUniqueSlugCall(i, flush) ==
    LET R == create_unique_slug(Cur, i, flush)
    IN  Returns(R, Call("create_unique_slug", i, R))

SetSlugCall(i, new_slug, user, flush) ==
    LET R == set_slug(Cur, i, new_slug, user, flush)
    IN  Returns(R, Call("set_slug", i, R))

ShareWithCall(i, users, isList, flush) ==
    LET R == share_with(Cur, i, users, isList, flush)
    IN  Returns(R, Call("share_with", i, R))

UnshareWithCall(i, users, isList, flush) ==
    LET R == unshare_with(Cur, i, users, isList, flush)
    IN  Returns(R, Call("unshare_with", i, R))

IsOwnerCall(i, user) ==
    Returns(Cur, Answer("is_owner", i, Cur, is_owner(i, user)))

IsAccessibleCall(i, user) ==
    Returns(Cur, Answer("is_accessible", i, Cur, is_accessible(Cur, i, user)))

IsOwner == \E i \in Items, user \in Identities : IsOwnerCall(i, user)

IsAccessible == \E i \in Items, user \in Identities : IsAccessibleCall(i, user)

MakeImportable == \E i \in Items, flush \in BOOLEAN : MakeImportableCall(i, flush)

MakeNonImportable == \E i \in Items, flush \in BOOLEAN : MakeNonImportableCall(i, flush)

Publish == \E i \in Items, flush \in BOOLEAN : PublishCall(i, flush)

Unpublish == \E i \in Items, flush \in BOOLEAN : UnpublishCall(i, flush)

CreateUniqueSlug == \E i \in Items, flush \in BOOLEAN : CreateUniqueSlugCall(i, flush)

\* the callers hand set_slug the identity they authorised with is_owner
SetSlug ==
    \E i \in Items, new_slug \in Candidates, user \in Users, flush \in BOOLEAN :
        /\ is_owner(i, user)
        /\ SetSlugCall(i, new_slug, user, flush)

ShareWith ==
    \E i \in Items, flush \in BOOLEAN :
        \/ \E user \in Grantees(i) : ShareWithCall(i, <<user>>, FALSE, flush)
        \/ \E users \in UserLists(Grantees(i)) : ShareWithCall(i, users, TRUE, flush)

UnshareWith ==
    \E i \in Items, flush \in BOOLEAN :
        \/ \E user \in Grantees(i) : UnshareWithCall(i, <<user>>, FALSE, flush)
        \/ \E users \in UserLists(Grantees(i)) : UnshareWithCall(i, users, TRUE, flush)

DeserializePublishedCall(i, val) ==
    LET r == deserialize_published(Cur, i, val)
    IN  Returns(r.S, Answer("deserialize_published", i, r.S, r.val))

DeserializeImportableCall(i, val) ==
    LET r == deserialize_importable(Cur, i, val)
    IN  Returns(r.S, Answer("deserialize_importable", i, r.S, r.val))

DeserializePublished == \E i \in Items, val \in BOOLEAN : DeserializePublishedCall(i, val)

DeserializeImportable == \E i \in Items, val \in BOOLEAN : DeserializeImportableCall(i, val)

\* the caller of a deferred (flush=False) call flushes the session itself
CallerFlush ==
    LET R == session_flush(Cur)
    IN  Returns(R, Call("flush", 0, R))

NewItem == [slug |-> NoSlug, importable |-> FALSE, published |-> FALSE]

NoRequest == [op |-> "none", flush |-> FALSE]
NoProbe == [slug_base |-> <<>>, new_slug |-> <<>>, count |-> 1]

IdleRequests ==
    /\ pc = [p \in {1, 2} |-> "idle"]
    /\ req = [p \in {1, 2} |-> NoRequest]
    /\ probe = [p \in {1, 2} |-> NoProbe]

\* item 1 belongs to u1 and its title gives the slug base "a"; item 2 belongs to u1 as
\* well or to u2, and its title gives the same slug base or an empty one
Init ==
    /\ autoflush \in BOOLEAN
    /\ owner \in { o \in [Items -> Owners] : o[1] = "u1" }
    /\ title \in { t \in [Items -> Titles] : t[1] = <<"A", " ", "!">> }
    /\ mem = [i \in Items |-> NewItem]
    /\ db = [i \in Items |-> NewItem]
    /\ assocs = <<>>
    /\ pending = <<>>
    /\ deleted = {}
    /\ nextId = 1
    /\ ndeferred = 0
    /\ last = NoCall
    /\ IdleRequests

\* the calls that write slug, importable and published
Next ==
    \/ MakeImportable
    \/ MakeNonImportable
    \/ Publish
    \/ Unpublish
    \/ CreateUniqueSlug
    \/ SetSlug
    \/ CallerFlush

Spec == Init /\ [][Next]_vars

\* the calls that write share associations (and, through them, a missing slug)
NextShare ==
    \/ ShareWith
    \/ UnshareWith
    \/ CreateUniqueSlug
    \/ CallerFlush

SpecShare == Init /\ [][NextShare]_vars

\* the deserializers, whose caller flushes the session when they are done
NextDeserialize ==
    \/ DeserializePublished
    \/ DeserializeImportable
    \/ CallerFlush

SpecDeserialize == Init /\ [][NextDeserialize]_vars

----
(* is_owner and is_accessible are functions of what the session holds: they are   *)
(* applied to the items and share associations earlier calls can have left there. *)

\* an item as make_importable, make_non_importable and share_with leave it
SharedItemRows ==
    { [slug |-> NoSlug, importable |-> FALSE, published |-> FALSE],
      [slug |-> <<"a">>, importable |-> FALSE, published |-> FALSE],
      [slug |-> <<"a">>, importable |-> TRUE, published |-> FALSE] }

ShareRows == [id : 1..MaxAssocs, item : Items, user : Identities]

\* the share associations share_with can have created, one item after the other, for
\* items owned by o: nobody is granted an item twice, and the anonymous user (for whom
\* get_share_assocs returns every association of the item) is granted an item only
\* before anyone else
SharedLists(o) ==
    { g \in UNION { [1..n -> ShareRows] : n \in 0..MaxAssocs } :
        /\ \A k \in DOMAIN g : g[k].id = k /\ g[k].user # o[g[k].item]
        /\ \A k, l \in DOMAIN g :
              k < l => /\ g[k].item <= g[l].item
                       /\ g[k].item = g[l].item
                            => (g[k].user # g[l].user /\ g[l].user # Anonymous) }

\* the first associations are flushed, the rest pending; some flushed ones are deleted
\* in the session, each unflushed change being left by one deferred call; an item that
\* has been shared has had a slug written
InitAccess ==
    /\ autoflush \in BOOLEAN
    /\ owner \in { o \in [Items -> Owners] : o[1] = "u1" }
    /\ title = [i \in Items |-> <<"A", " ", "!">>]
    /\ db \in [Items -> SharedItemRows]
    /\ mem = db
    /\ \E g \in SharedLists(owner) : \E n \in 0..Len(g) :
          /\ \A k \in DOMAIN g : db[g[k].item].slug # NoSlug
          /\ assocs = SubSeq(g, 1, n)
          /\ pending = SubSeq(g, n + 1, Len(g))
          /\ deleted \in { d \in SUBSET (1..n) :
                             Cardinality(d) + Len(g) - n <= MaxDeferred }
          /\ nextId = Len(g) + 1
    /\ ndeferred = 0
    /\ last = NoCall
    /\ IdleRequests

NextAccess ==
    \/ IsOwner
    \/ IsAccessible

SpecAccess == InitAccess /\ [][NextAccess]_vars

----
(* The same calls line by line, run by two concurrent requests.  Request p works   *)
(* on item p in a session of its own: mem[p] is the object in that session, db the *)
(* database both requests query and flush to.                                      *)

Requests == {1, 2}

SharedUnchanged ==
    UNCHANGED <<owner, autoflush, title, assocs, pending, deleted, nextId, last, ndeferred>>

Goto(p, line) == pc' = [pc EXCEPT ![p] = line]

\* where _session_setattr(..., flush=flush) goes after the setattr
AfterSetattr(p) == IF req[p].flush THEN "flush" ELSE "return"

\* a request loads its item and enters one of the four calls
Begin(p) ==
    /\ pc[p] = "idle"
    /\ \E op \in {"make_importable", "make_non_importable", "publish", "unpublish"},
          flush \in BOOLEAN :
          /\ req' = [req EXCEPT ![p] = [op |-> op, flush |-> flush]]
          /\ Goto(p, IF op = "make_importable" THEN "get_unique_slug"
                     ELSE IF op = "unpublish" THEN "clear_published"
                     ELSE op)
    /\ mem' = [mem EXCEPT ![p] = db[p]]
    /\ UNCHANGED <<db, probe>>
    /\ SharedUnchanged

\* publish: if not item.importable: self.make_importable(item, flush=False)
PublishTest(p) ==
    /\ pc[p] = "publish"
    /\ Goto(p, IF ~ mem[p].importable THEN "get_unique_slug" ELSE "set_published")
    /\ UNCHANGED <<mem, db, req, probe>>
    /\ SharedUnchanged

\* get_unique_slug: cur_slug, slug_base, new_slug = slug_base, count = 1
SlugBaseStep(p) ==
    /\ pc[p] = "get_unique_slug"
    /\ LET slug_base == SlugBase(mem[p].slug, p)
       IN  probe' = [probe EXCEPT ![p] =
                        [slug_base |-> slug_base, new_slug |-> slug_base, count |-> 1]]
    /\ Goto(p, "probe")
    /\ UNCHANGED <<mem, db, req>>
    /\ SharedUnchanged

\* the while loop counting on without building the next candidate
ProbeStep_same_candidate(p) ==
    /\ pc[p] = "probe"
    /\ LET rows == IF autoflush THEN [db EXCEPT ![p] = mem[p]] ELSE db
       IN  /\ db' = rows
           /\ IF ImportableSlugCount(rows, owner[p], probe[p].new_slug) # 0
              THEN /\ Len(probe[p].slug_base) + 2 <= MaxSlugLen
                   /\ probe' = [probe EXCEPT ![p].count = probe[p].count + 1]
                   /\ UNCHANGED pc
              ELSE /\ Goto(p, "write_slug")
                   /\ UNCHANGED probe
    /\ UNCHANGED <<mem, req>>
    /\ SharedUnchanged

\* one test of the while loop: the query, and the next candidate if the slug is taken
ProbeStep(p) ==
    /\ pc[p] = "probe"
    /\ LET rows == IF autoflush THEN [db EXCEPT ![p] = mem[p]] ELSE db
       IN  /\ db' = rows
           /\ IF ImportableSlugCount(rows, owner[p], probe[p].new_slug) # 0
              THEN /\ Len(probe[p].slug_base) + 2 <= MaxSlugLen
                   /\ probe' = [probe EXCEPT
                        ![p].new_slug = probe[p].slug_base \o <<"-">> \o IntToStr(probe[p].count),
                        ![p].count = probe[p].count + 1]
                   /\ UNCHANGED pc
              ELSE /\ Goto(p, "write_slug")
                   /\ UNCHANGED probe
    /\ UNCHANGED <<mem, req>>
    /\ SharedUnchanged

\* create_unique_slug(item, flush=False): item.slug = self.get_unique_slug(item)
WriteSlug(p) ==
    /\ pc[p] = "write_slug"
    /\ mem' = [mem EXCEPT ![p].slug = probe[p].new_slug]
    /\ probe' = [probe EXCEPT ![p] = NoProbe]
    /\ Goto(p, "set_importable")
    /\ UNCHANGED <<db, req>>
    /\ SharedUnchanged

\* make_importable: _session_setattr(item, 'importable', True, ...)
SetImportable(p) ==
    /\ pc[p] = "set_importable"
    /\ mem' = [mem EXCEPT ![p].importable = TRUE]
    /\ Goto(p, IF req[p].op = "publish" THEN "set_published" ELSE AfterSetattr(p))
    /\ UNCHANGED <<db, req, probe>>
    /\ SharedUnchanged

\* publish: _session_setattr(item, 'published', True, flush=flush)
SetPublished(p) ==
    /\ pc[p] = "set_published"
    /\ mem' = [mem EXCEPT ![p].published = TRUE]
    /\ Goto(p, AfterSetattr(p))
    /\ UNCHANGED <<db, req, probe>>
    /\ SharedUnchanged

\* make_non_importable going straight to its last line
MakeNonImportableTest_no_unpublish(p) ==
    /\ pc[p] = "make_non_importable"
    /\ Goto(p, "clear_importable")
    /\ UNCHANGED <<mem, db, req, probe>>
    /\ SharedUnchanged

\* make_non_importable: if item.published: self.unpublish(item, flush=False)
MakeNonImportableTest(p) ==
    /\ pc[p] = "make_non_importable"
    /\ Goto(p, IF mem[p].published THEN "clear_published" ELSE "clear_importable")
    /\ UNCHANGED <<mem, db, req, probe>>
    /\ SharedUnchanged

\* unpublish: _session_setattr(item, 'published', False, ...)
ClearPublished(p) ==
    /\ pc[p] = "clear_published"
    /\ mem' = [mem EXCEPT ![p].published = FALSE]
    /\ Goto(p, IF req[p].op = "make_non_importable" THEN "clear_importable"
               ELSE AfterSetattr(p))
    /\ UNCHANGED <<db, req, probe>>
    /\ SharedUnchanged

\* make_non_importable: _session_setattr(item, 'importable', False, flush=flush)
ClearImportable(p) ==
    /\ pc[p] = "clear_importable"
    /\ mem' = [mem EXCEPT ![p].importable = FALSE]
    /\ Goto(p, AfterSetattr(p))
    /\ UNCHANGED <<db, req, probe>>
    /\ SharedUnchanged

\* _session_setattr: if flush: self.session().flush()
FlushStep(p) ==
    /\ pc[p] = "flush"
    /\ db' = [db EXCEPT ![p] = mem[p]]
    /\ Goto(p, "return")
    /\ UNCHANGED <<mem, req, probe>>
    /\ SharedUnchanged

\* after a deferred (flush=False) call the caller flushes its session itself
CallerFlushStep(p) ==
    /\ pc[p] = "return"
    /\ ~ req[p].flush
    /\ req' = [req EXCEPT ![p].flush = TRUE]
    /\ Goto(p, "flush")
    /\ UNCHANGED <<mem, db, probe>>
    /\ SharedUnchanged

\* the call has returned and the request ends; what it left unflushed is dropped
Return(p) ==
    /\ pc[p] = "return"
    /\ Goto(p, "idle")
    /\ req' = [req EXCEPT ![p] = NoRequest]
    /\ UNCHANGED <<mem, db, probe>>
    /\ SharedUnchanged

NextSteps ==
    \E p \in Requests :
        \/ Begin(p)
        \/ PublishTest(p)
        \/ SlugBaseStep(p)
        \/ ProbeStep(p)
        \/ WriteSlug(p)
        \/ SetImportable(p)
        \/ SetPublished(p)
        \/ MakeNonImportableTest(p)
        \/ ClearPublished(p)
        \/ ClearImportable(p)
        \/ FlushStep(p)
        \/ CallerFlushStep(p)
        \/ Return(p)

SpecSteps == Init /\ [][NextSteps]_vars

----
(* get_unique_slug against the rows it queries: one request runs the calls line by *)
(* line on item 1, starting from the rows earlier calls can have flushed for the   *)
(* two items, and nobody else writes while it runs.                                *)

\* an item as the calls of Spec leave it: importable only with a slug written, published
\* only if importable
StoredItemRows ==
    { r \in [slug : {NoSlug, <<"a">>, <<"a", "-", "1">>},
             importable : BOOLEAN, published : BOOLEAN] :
        /\ r.importable => r.slug # NoSlug
        /\ r.published => r.importable }

InitProbe ==
    /\ autoflush \in BOOLEAN
    /\ owner \in { o \in [Items -> Owners] : o[1] = "u1" }
    /\ title \in { t \in [Items -> Titles] : t[1] = <<"A", " ", "!">> }
    /\ db \in [Items -> StoredItemRows]
    /\ mem = db
    /\ assocs = <<>>
    /\ pending = <<>>
    /\ deleted = {}
    /\ nextId = 1
    /\ ndeferred = 0
    /\ last = NoCall
    /\ IdleRequests

NextProbe ==
    \/ Begin(1)
    \/ PublishTest(1)
    \/ SlugBaseStep(1)
    \/ ProbeStep(1)
    \/ WriteSlug(1)
    \/ SetImportable(1)
    \/ SetPublished(1)
    \/ MakeNonImportableTest(1)
    \/ ClearPublished(1)
    \/ ClearImportable(1)
    \/ FlushStep(1)
    \/ CallerFlushStep(1)
    \/ Return(1)

SpecProbe == InitProbe /\ [][NextProbe]_vars

----
(* The claims *)

\* the share associations the session holds: the flushed ones not deleted, and the pending
Grants == SelectSeq(assocs, LAMBDA a : a.id \notin deleted) \o pending

HasGrant(i, user) == \E k \in DOMAIN Grants : Grants[k].item = i /\ Grants[k].user = user

\* the exceptions of the NotFound class (galaxy.exceptions.ObjectNotFound)
NotFoundErrors == {"ObjectNotFound"}

\* C1: whatever publish, unpublish, make_importable and make_non_importable calls were
\* made, with flush true or false, a published item is importable when the call returns.
C1_PublishedImpliesImportable ==
    \A i \in Items : mem[i].published => mem[i].importable

\* make_non_importable has returned for an item whose flushed row is still published
C1_Witness ==
    \E i \in Items :
        /\ last.op = "make_non_importable" /\ last.item = i
        /\ db[i].published
        /\ ~ mem[i].published /\ ~ mem[i].importable

\* C2: an importable item has a slug that is neither None nor the empty string.
C2_ImportableHasSlug ==
    \A i \in Items : mem[i].importable => (mem[i].slug # NoSlug /\ mem[i].slug # <<>>)

\* C3: no two importable items of one owner have the same slug -- stated for the sessions
\* that flush before each query, where every call sees what the calls before it wrote.
C3_UniqueImportableSlugs ==
    autoflush =>
        \A i, j \in Items :
            (i # j /\ owner[i] = owner[j] /\ mem[i].importable /\ mem[j].importable)
                => mem[i].slug # mem[j].slug

\* C6: right after set_slug(R1, s, O) succeeded, set_slug(R2, s, O) on another item of
\* the same owner raises Conflict and leaves R2's slug as it was.
C6_SecondSetSlugConflicts ==
    [][ \A i, j \in Items, s \in Candidates, flush \in BOOLEAN :
          ( /\ i # j /\ owner[i] = owner[j]
            /\ last.op = "set_slug" /\ last.item = j /\ last.exc = "none"
            /\ mem[j].slug = s
            /\ SetSlugCall(i, s, owner[i], flush) )
          => (last'.exc = "Conflict" /\ mem'[i].slug = mem[i].slug) ]_vars

\* C7: set_slug(R, s, owner) with a valid s succeeds and sets R.slug = s whenever no
\* other item of the owner has slug s.
C7_ConflictOnlyOnOtherItem ==
    [][ \A i \in Items, s \in Candidates, flush \in BOOLEAN :
          ( /\ FullMatchSlug(s)
            /\ ~ \E j \in Items : j # i /\ owner[j] = owner[i] /\ mem[j].slug = s
            /\ SetSlugCall(i, s, owner[i], flush) )
          => (last'.exc = "none" /\ mem'[i].slug = s) ]_vars

\* C8: set_slug raises the invalid-input error for every candidate that is not wholly
\* [a-z0-9-]+, and a set_slug that raises changes nothing and flushes nothing.
C8_InvalidSlugRejected ==
    [][ \A i \in Items, s \in Candidates, user \in Users, flush \in BOOLEAN :
          (is_owner(i, user) /\ SetSlugCall(i, s, user, flush))
          => /\ ~ FullMatchSlug(s) => last'.exc = "RequestParameterInvalidException"
             /\ last'.exc # "none" => (mem' = mem /\ db' = db /\ ~ last'.flushed) ]_vars

\* C9: there is never more than one share association per (item, user), and share_with
\* for a user who has one returns it and creates none (the grantees being users).
C9_OneGrantPerPair ==
    [][ /\ \A k, l \in DOMAIN Grants' :
              ( /\ Grants'[k].user \in Users
                /\ Grants'[k].item = Grants'[l].item /\ Grants'[k].user = Grants'[l].user )
                  => k = l
        /\ \A i \in Items, user \in Users, flush \in BOOLEAN :
              (HasGrant(i, user) /\ ShareWithCall(i, <<user>>, FALSE, flush))
              => /\ nextId' = nextId
                 /\ \E k \in DOMAIN Grants :
                       /\ Grants[k].item = i /\ Grants[k].user = user
                       /\ last'.ret = <<Grants[k].id>> ]_vars

\* C10: unshare_with(R, U) when U has no share association of R raises an error of the
\* NotFound class and leaves the share associations as they were.
C10_UnshareMissingIsNotFound ==
    [][ \A i \in Items, user \in Identities, flush \in BOOLEAN :
          (~ HasGrant(i, user) /\ UnshareWithCall(i, <<user>>, FALSE, flush))
          => (last'.exc \in NotFoundErrors /\ Grants' = Grants) ]_vars

\* C4: two requests running make_importable or publish at the same time never leave two
\* items of one owner flushed as importable with the same slug.
C4_NoCommittedDuplicate ==
    \A i, j \in Items :
        (i # j /\ owner[i] = owner[j] /\ db[i].importable /\ db[j].importable)
            => db[i].slug # db[j].slug

C11_AccessibleExactlyWhen ==
    [][ \A i \in Items, user \in Identities :
          /\ IsAccessibleCall(i, user)
                => /\ last'.val = ( \/ mem[i].importable
                                    \/ user = "admin" \/ user = owner[i]
                                    \/ (user # Anonymous /\ HasGrant(i, user)) )
                   /\ is_owner(i, user) => last'.val
                   /\ last'.exc = "none" /\ ~ last'.flushed
                   /\ UNCHANGED <<mem, db, assocs, pending, deleted, nextId>>
          /\ IsOwnerCall(i, user)
                => /\ last'.val = (user = "admin" \/ user = owner[i])
                   /\ last'.exc = "none" /\ ~ last'.flushed
                   /\ UNCHANGED <<mem, db, assocs, pending, deleted, nextId>> ]_vars

\* is_accessible has answered for an item that is not importable and has a share
\* association: yes for its user, no for the anonymous user
C11_Witness ==
    \E i \in Items :
        /\ last.op = "is_accessible" /\ last.item = i /\ last.val
        /\ ~ mem[i].importable
        /\ HasGrant(i, "u2") /\ owner[i] # "u2"
        /\ HasGrant(i, Anonymous)
        /\ ~ is_accessible(Cur, i, Anonymous)

\* the n-th slug of the sequence base, base-1, base-2, ...
SlugCandidate(slug_base, n) ==
    IF n = 0 THEN slug_base ELSE slug_base \o <<"-">> \o IntToStr(n)

\* the slugs of the flushed importable items of a user
ImportableSlugs(user) ==
    { db[j].slug : j \in { k \in Items : owner[k] = user /\ db[k].importable } }

\* the places in the sequence that hold the slug of an importable item of the user
Colliding(slug_base, user) ==
    { n \in 0..Cardinality(Items) : SlugCandidate(slug_base, n) \in ImportableSlugs(user) }

\* C12: the slug get_unique_slug returns is the first of base, base-1, base-2, ... that
\* is not the slug of an importable item of the item's owner; the slugs of items that are
\* not importable or belong to another user are not skipped.
C12_FirstFreeCandidate ==
    \A p \in Requests :
        pc[p] = "write_slug" =>
            \E n \in 0..Cardinality(Items) :
                /\ probe[p].new_slug = SlugCandidate(probe[p].slug_base, n)
                /\ n \notin Colliding(probe[p].slug_base, owner[p])
                /\ \A m \in 0..(n - 1) : m \in Colliding(probe[p].slug_base, owner[p])

\* with importable slugs a and a-1 and base a, get_unique_slug has found a-2
C12_Witness ==
    \E p \in Requests :
        /\ pc[p] = "write_slug"
        /\ probe[p].slug_base = <<"a">>
        /\ probe[p].new_slug = <<"a", "-", "2">>
        /\ ImportableSlugs(owner[p]) = { <<"a">>, <<"a", "-", "1">> }

\* C16: with k slugs of the sequence taken by importable items of the owner, the loop of
\* get_unique_slug is never past its (k+1)-th probe, so it ends after at most k+1 probes
\* (the rows do not change while the one request runs).
C16_ProbesBounded ==
    \A p \in Requests :
        pc[p] \in {"probe", "write_slug"} =>
            probe[p].count <= Cardinality(Colliding(probe[p].slug_base, owner[p])) + 1

\* the loop has ended on the probe after the last of its collisions
C16_Witness ==
    \E p \in Requests :
        /\ pc[p] = "write_slug"
        /\ Colliding(probe[p].slug_base, owner[p]) # {}
        /\ probe[p].count = Cardinality(Colliding(probe[p].slug_base, owner[p])) + 1

\* C13: publish called right after a publish of the same item that raised nothing raises
\* nothing and leaves the item's slug, importable and published as they were.
C13_RepublishChangesNothing ==
    [][ \A i \in Items, flush \in BOOLEAN :
          ( /\ last.op = "publish" /\ last.item = i /\ last.exc = "none"
            /\ PublishCall(i, flush) )
          => (last'.exc = "none" /\ mem'[i] = mem[i]) ]_vars

\* publish has returned, without flushing, for an item already flushed as published
C13_Witness ==
    \E i \in Items :
        /\ last.op = "publish" /\ last.item = i /\ last.exc = "none" /\ ~ last.flushed
        /\ db[i].published /\ db[i].importable
        /\ mem[i] = db[i]

\* C14: make_importable, called directly or by publish, leaves the slug of an item that
\* has a non-empty slug as it was, whether or not the item is importable and whatever
\* slugs the owner's other items have.
C14_SlugKept ==
    [][ \A i \in Items, flush \in BOOLEAN :
          ( /\ mem[i].slug # NoSlug /\ mem[i].slug # <<>>
            /\ MakeImportableCall(i, flush) \/ PublishCall(i, flush) )
          => mem'[i].slug = mem[i].slug ]_vars

\* C15: a call made with flush = False -- make_importable, make_non_importable, publish,
\* unpublish, create_unique_slug, set_slug, share_with or unshare_with, on an item in any
\* state, one with no slug included -- does not call session().flush().
C15_DeferredNeverFlushes ==
    [][ \A i \in Items :
          ( \/ MakeImportableCall(i, FALSE) \/ MakeNonImportableCall(i, FALSE)
            \/ PublishCall(i, FALSE) \/ UnpublishCall(i, FALSE)
            \/ CreateUniqueSlugCall(i, FALSE)
            \/ \E s \in Candidates, user \in Users : SetSlugCall(i, s, user, FALSE)
            \/ \E user \in Grantees(i) :
                  \/ ShareWithCall(i, <<user>>, FALSE, FALSE)
                  \/ UnshareWithCall(i, <<user>>, FALSE, FALSE) )
          => ~ last'.flushed ]_vars

\* C17: unshare_with(R, U), for every U and the anonymous user too, leaves every share
\* association that is not one of R for U in place, and the association share_with(R, U)
\* returns is one of R for U.
C17_OnlyTheGrantOfTheUser ==
    [][ \A i \in Items, flush \in BOOLEAN : \A user \in Grantees(i) :
          /\ UnshareWithCall(i, <<user>>, FALSE, flush)
                => \A k \in DOMAIN Grants :
                      (Grants[k].item # i \/ Grants[k].user # user)
                          => \E l \in DOMAIN Grants' : Grants'[l] = Grants[k]
          /\ (ShareWithCall(i, <<user>>, FALSE, flush) /\ last'.exc = "none")
                => \A l \in DOMAIN Grants' :
                      Grants'[l].id \in Range(last'.ret)
                          => (Grants'[l].item = i /\ Grants'[l].user = user) ]_vars

\* C18: share_with and unshare_with called with a list and flush = True return with every
\* share association they created flushed and every deletion they made flushed.
C18_ListCallFlushes ==
    [][ \A i \in Items : \A users \in UserLists(Grantees(i)) :
          ( /\ ShareWithCall(i, users, TRUE, TRUE) \/ UnshareWithCall(i, users, TRUE, TRUE)
            /\ last'.exc = "none" )
          => /\ \A k \in DOMAIN pending' : pending'[k].id < nextId
             /\ deleted' \subseteq deleted ]_vars

\* is_accessible as the session stands
Accessible(i, user) == is_accessible(Cur, i, user)

\* some call other than an unshare_with of item i that names the user
CallOtherThanUnshare(i, user) ==
    \/ CallerFlush
    \/ \E j \in Items, flush \in BOOLEAN :
          \/ CreateUniqueSlugCall(j, flush)
          \/ \E w \in Grantees(j) :
                \/ ShareWithCall(j, <<w>>, FALSE, flush)
                \/ (j # i \/ w # user) /\ UnshareWithCall(j, <<w>>, FALSE, flush)
          \/ \E ws \in UserLists(Grantees(j)) :
                \/ ShareWithCall(j, ws, TRUE, flush)
                \/ (j # i \/ user \notin Range(ws)) /\ UnshareWithCall(j, ws, TRUE, flush)

\* C19: for an item R that is not importable and a user U who is not anonymous, not R's
\* owner and not an admin: share_with(R, U) returns with is_accessible(R, U) true, no call
\* but an unshare_with(R, U) makes it false, and an unshare_with(R, U) that raises
\* nothing returns with it false -- stated for the sessions that flush before each
\* query, where every call sees what the calls before it wrote.
C19_AccessFollowsGrant ==
    [][ autoflush =>
          \A i \in Items, user \in Users \ {"admin"}, flush \in BOOLEAN :
            (user # owner[i] /\ ~ mem[i].importable /\ ~ mem'[i].importable)
            => /\ (ShareWithCall(i, <<user>>, FALSE, flush) /\ last'.exc = "none")
                     => Accessible(i, user)'
               /\ (Accessible(i, user) /\ CallOtherThanUnshare(i, user))
                     => Accessible(i, user)'
               /\ (UnshareWithCall(i, <<user>>, FALSE, flush) /\ last'.exc = "none")
                     => ~ Accessible(i, user)' ]_vars

\* C20: deserialize_importable returns the item's importable flag as the call leaves it,
\* which is val, as deserialize_published returns the published flag; and when val is the
\* flag's value already, neither changes the item's slug, importable or published.
C20_ReturnsResultingFlag ==
    [][ \A i \in Items, val \in BOOLEAN :
          /\ DeserializeImportableCall(i, val)
                => /\ last'.val = mem'[i].importable /\ last'.val = val
                   /\ mem[i].importable = val => mem'[i] = mem[i]
          /\ DeserializePublishedCall(i, val)
                => /\ last'.val = mem'[i].published
                   /\ mem[i].published = val => mem'[i] = mem[i] ]_vars

====
